---------------------------- MODULE Spec2Model ----------------------------
(***************************************************************************)
(* Administrative panel of the strategic-planning system                   *)
(* (plan/organizations/admin.py) and the two Plan migrations.              *)
(*                                                                         *)
(* Strings are sequences of one-character strings, so that splitting,      *)
(* trimming and joining are computed character by character.  A Python     *)
(* None / an absent value is the empty sequence None, a present value x    *)
(* is Some(x) = <<x>>.  A dict is a function whose DOMAIN is its key set.  *)
(***************************************************************************)
EXTENDS Integers, Sequences, FiniteSets, TLC

VARIABLES
    view,          \* "add" | "edit": which admin view built the form
    phase,         \* position of the request in the form's life cycle
    instance,      \* form.instance: [pk, name, core_values]
    initial,       \* fields['core_values_text'].initial: None or Some(text)
    cleaned_data,  \* form.cleaned_data (a dict), <<>> before validation
    db,            \* the persisted Organization row: None or Some(record)
    lastCleaned,   \* history: the list clean() produced for the stored row
    obj,           \* the row a changelist renders: a plan or a review
    cells,         \* computed columns rendered for obj: column -> outcome
    plans,         \* TeamDeskPlan rows: id -> [status, submitted_at]
    reviews,       \* TeamDeskPlanReview rows: id -> row
    nextReview,    \* id the next TeamDeskPlanReview row gets
    applied,       \* migrations of the Plan table applied so far
    planRows       \* Plan rows: id -> the columns the schema has

formVars == <<view, phase, instance, initial, cleaned_data, db, lastCleaned>>
displayVars == <<obj, cells>>
workflowVars == <<plans, reviews, nextReview>>
schemaVars == <<applied, planRows>>

vars == <<formVars, displayVars, workflowVars, schemaVars>>

---------------------------------------------------------------------------
(* Bounds of the enumerated inputs *)

MaxLen == 4          \* longest enumerated core_values_text
MaxStoredChars == 3  \* characters in an enumerated stored core_values list
MaxVals == 2         \* entries in an enumerated stored core_values list

---------------------------------------------------------------------------
(* Values *)

None == <<>>
Some(x) == <<x>>

NL == "\n"
Chars == {"a", "A", " ", NL}

\* Characters str.strip() removes (the ASCII ones that can appear here).
Whitespace == {" ", NL, "\t", "\r"}

SeqsUpTo(S, n) == UNION {[1..k -> S] : k \in 0..n}

\* The specification's example: "  Integrity \nExcellence\n\n  "
ExampleText ==
    <<" ", " ", "I", "n", "t", "e", "g", "r", "i", "t", "y", " ", NL,
      "E", "x", "c", "e", "l", "l", "e", "n", "c", "e", NL, NL, " ", " ">>

Texts == SeqsUpTo(Chars, MaxLen) \cup {ExampleText}

\* The lists of at most k strings with at most n characters in all.
RECURSIVE ListsWithin(_, _)
ListsWithin(n, k) ==
    IF k = 0 THEN {<<>>}
    ELSE {<<>>} \cup
         UNION {{<<e>> \o rest : rest \in ListsWithin(n - Len(e), k - 1)} :
                   e \in SeqsUpTo(Chars, n)}

\* Lists a JSON column can hold: any strings, trimmed or not, empty or not.
StoredLists == ListsWithin(MaxStoredChars, MaxVals)

---------------------------------------------------------------------------
(* Python string operations used by the form *)

\* str.split('\n'): always at least one piece; pieces hold no newline.
RECURSIVE Split(_)
Split(s) ==
    IF \A i \in 1..Len(s) : s[i] # NL
    THEN <<s>>
    ELSE LET i == CHOOSE j \in 1..Len(s) :
                    s[j] = NL /\ \A k \in 1..(j - 1) : s[k] # NL
         IN  <<SubSeq(s, 1, i - 1)>> \o Split(SubSeq(s, i + 1, Len(s)))

RECURSIVE LStrip(_)
LStrip(s) ==
    IF s # <<>> /\ Head(s) \in Whitespace THEN LStrip(Tail(s)) ELSE s

RECURSIVE RStrip(_)
RStrip(s) ==
    IF s # <<>> /\ s[Len(s)] \in Whitespace
    THEN RStrip(SubSeq(s, 1, Len(s) - 1))
    ELSE s

\* str.strip()
Strip(s) == RStrip(LStrip(s))

\* ' '.join(values): the wrong separator.
RECURSIVE Join_Space(_)
Join_Space(values) ==
    IF values = <<>> THEN <<>>
    ELSE IF Len(values) = 1 THEN Head(values)
    ELSE Head(values) \o <<" ">> \o Join_Space(Tail(values))

\* '\n'.join(values)
RECURSIVE Join(_)
Join(values) ==
    IF values = <<>> THEN <<>>
    ELSE IF Len(values) = 1 THEN Head(values)
    ELSE Head(values) \o <<NL>> \o Join(Tail(values))

\* [value.strip() for value in pieces if value.strip()]
RECURSIVE StripNonEmpty(_)
StripNonEmpty(pieces) ==
    IF pieces = <<>> THEN <<>>
    ELSE IF Strip(Head(pieces)) # <<>>
         THEN <<Strip(Head(pieces))>> \o StripNonEmpty(Tail(pieces))
         ELSE StripNonEmpty(Tail(pieces))

\* dict.get(key, default)
Get(d, key, default) == IF key \in DOMAIN d THEN d[key] ELSE default

\* d[key] = value
Put(d, key, value) ==
    [k \in DOMAIN d \cup {key} |-> IF k = key THEN value ELSE d[k]]

---------------------------------------------------------------------------
(* OrganizationAdminForm *)

\* Variants of the list comprehension with a plausible slip each.
RECURSIVE KeepNonBlank(_)
KeepNonBlank(pieces) ==
    IF pieces = <<>> THEN <<>>
    ELSE IF Strip(Head(pieces)) # <<>>
         THEN <<Head(pieces)>> \o KeepNonBlank(Tail(pieces))
         ELSE KeepNonBlank(Tail(pieces))

RECURSIVE StripNonEmptyRaw(_)
StripNonEmptyRaw(pieces) ==
    IF pieces = <<>> THEN <<>>
    ELSE IF Head(pieces) # <<>>
         THEN <<Strip(Head(pieces))>> \o StripNonEmptyRaw(Tail(pieces))
         ELSE StripNonEmptyRaw(Tail(pieces))

RECURSIVE Dedup(_)
Dedup(l) ==
    IF l = <<>> THEN <<>>
    ELSE LET front == Dedup(SubSeq(l, 1, Len(l) - 1))
         IN  IF \E i \in 1..Len(front) : front[i] = l[Len(l)]
             THEN front
             ELSE Append(front, l[Len(l)])

\* [value for value in ... if value.strip()]: the kept value is not trimmed.
CoreValuesFromText_NoStrip(text) == KeepNonBlank(Split(text))

\* [value.strip() for value in ... if value]: the filter tests the raw line.
CoreValuesFromText_RawFilter(text) == StripNonEmptyRaw(Split(text))

\* Repeated values are dropped.
CoreValuesFromText_Dedup(text) == Dedup(StripNonEmpty(Split(text)))

\* The list comprehension of clean().
CoreValuesFromText(text) == StripNonEmpty(Split(text))

\* clean() without its else branch: nothing is assigned for an empty text.
clean_NoElse(cd) ==
    LET core_values_text == Get(cd, "core_values_text", <<>>)
    IN  IF core_values_text # <<>>
        THEN Put(cd, "core_values", CoreValuesFromText(core_values_text))
        ELSE cd

\* clean() that also writes the normalised text back into cleaned_data.
clean_RewritesText(cd) ==
    LET core_values_text == Get(cd, "core_values_text", <<>>)
        values == IF core_values_text # <<>>
                  THEN CoreValuesFromText(core_values_text)
                  ELSE <<>>
    IN  Put(Put(cd, "core_values", values), "core_values_text", Join(values))

\* clean(): cleaned_data -> cleaned_data with 'core_values' assigned.
clean(cd) ==
    LET core_values_text == Get(cd, "core_values_text", <<>>)
    IN  IF core_values_text # <<>>
        THEN Put(cd, "core_values", CoreValuesFromText(core_values_text))
        ELSE Put(cd, "core_values", <<>>)

\* __init__(): the initial value given to core_values_text.
InitialFor(inst) ==
    IF inst.pk # None /\ inst.core_values # None /\ inst.core_values[1] # <<>>
    THEN Some(Join(inst.core_values[1]))
    ELSE None


\* What the edit form shows for an initial value: an unset initial is shown
\* as the empty text.
ShownText(init) == IF init = None THEN <<>> ELSE init[1]

\* A fresh Organization() of the add view, and the rows an edit view loads.
NewInstances ==
    {[pk |-> None, name |-> <<>>, core_values |-> cv] :
        cv \in {None, Some(<<>>), Some(<<<<"a">>>>)}}

StoredInstances ==
    {[pk |-> Some(1), name |-> <<"M">>, core_values |-> cv] :
        cv \in {None} \cup {Some(l) : l \in StoredLists}}

\* The texts an operator submits: anything when adding; when editing, the
\* text as shown or a cleared box.
SubmittedTexts == IF view = "add" THEN Texts ELSE {ShownText(initial), <<>>}

\* cleaned_data as the base validation leaves it.  The key
\* 'core_values_text' is absent when the field failed validation; the key
\* 'core_values' is present when the generated form has that model field.
BaseFields(name) ==
    [k \in {"name", "type", "parent", "vision", "mission"} |->
        CASE k = "name" -> name
          [] k = "type" -> <<"T">>
          [] k = "parent" -> None
          [] k = "vision" -> <<"v">>
          [] k = "mission" -> <<"m">>]

BaseCleaned ==
    LET names == {<<"M">>, <<"R">>}
        withText == {Put(BaseFields(n), "core_values_text", t) :
                        n \in names, t \in SubmittedTexts}
        noText == {BaseFields(n) : n \in names}
    IN  withText \cup noText
        \cup {Put(b, "core_values", <<<<"A">>>>) : b \in withText}

FormInit ==
    /\ phase = "new"
    /\ initial' = InitialFor(instance)
    /\ phase' = "bound"
    /\ UNCHANGED <<view, instance, cleaned_data, db, lastCleaned>>
    /\ UNCHANGED <<displayVars, workflowVars, schemaVars>>

\* Field validation (super().clean() returns this dict).
CleanFields ==
    /\ phase = "bound"
    /\ \E base \in BaseCleaned : cleaned_data' = base
    /\ phase' = "validated"
    /\ UNCHANGED <<view, instance, initial, db, lastCleaned>>
    /\ UNCHANGED <<displayVars, workflowVars, schemaVars>>

Clean ==
    /\ phase = "validated"
    /\ cleaned_data' = clean(cleaned_data)
    /\ phase' = "cleaned"
    /\ UNCHANGED <<view, instance, initial, db, lastCleaned>>
    /\ UNCHANGED <<displayVars, workflowVars, schemaVars>>

\* The model form builds obj from cleaned_data.  Whether 'core_values' is
\* among the copied fields depends on the field list of the generated form
\* (Meta.fields says all, the admin fieldsets omit it): both are admitted.
ConstructInstance(copy) ==
    /\ phase = "cleaned"
    /\ instance' = [instance EXCEPT
                      !.name = cleaned_data["name"],
                      !.core_values =
                          IF copy THEN Some(cleaned_data["core_values"]) ELSE @]
    /\ lastCleaned' = IF copy THEN Some(cleaned_data["core_values"]) ELSE None
    /\ phase' = "constructed"
    /\ UNCHANGED <<view, initial, cleaned_data, db>>
    /\ UNCHANGED <<displayVars, workflowVars, schemaVars>>

\* save_model(): the default save of obj, nothing else.
SaveModel ==
    /\ phase = "constructed"
    /\ instance' = [instance EXCEPT !.pk = Some(1)]
    /\ db' = Some(instance')
    /\ phase' = "saved"
    /\ UNCHANGED <<view, initial, cleaned_data, lastCleaned>>
    /\ UNCHANGED <<displayVars, workflowVars, schemaVars>>

\* The operator opens the change view of the saved row: a new form.
Reopen ==
    /\ phase = "saved"
    /\ view' = "edit"
    /\ instance' = db[1]
    /\ initial' = None
    /\ cleaned_data' = <<>>
    /\ phase' = "new"
    /\ UNCHANGED <<db, lastCleaned>>
    /\ UNCHANGED <<displayVars, workflowVars, schemaVars>>

\* The parts of the state a specification does not exercise.
FormIdle ==
    /\ view = "add"
    /\ phase = "idle"
    /\ instance = [pk |-> None, name |-> <<>>, core_values |-> None]
    /\ initial = None
    /\ cleaned_data = <<>>
    /\ db = None
    /\ lastCleaned = None

DisplayIdle == obj = <<>> /\ cells = <<>>

WorkflowIdle == plans = <<>> /\ reviews = <<>> /\ nextReview = 1

SchemaIdle == applied = {} /\ planRows = <<>>

Init ==
    /\ DisplayIdle /\ WorkflowIdle /\ SchemaIdle
    /\ instance \in NewInstances \cup StoredInstances
    /\ view = IF instance.pk = None THEN "add" ELSE "edit"
    /\ db = IF instance.pk = None THEN None ELSE Some(instance)
    /\ phase = "new"
    /\ initial = None
    /\ cleaned_data = <<>>
    /\ lastCleaned = None

Next ==
    \/ FormInit
    \/ CleanFields
    \/ Clean
    \/ \E copy \in BOOLEAN : ConstructInstance(copy)
    \/ SaveModel
    \/ Reopen

Spec == Init /\ [][Next]_vars

---------------------------------------------------------------------------
(* Claims about the core_values <-> text conversion *)

CleanStep == phase = "validated" /\ phase' = "cleaned"

Blank(text) == \A i \in 1..Len(text) : text[i] \in Whitespace

\* The lines of a text by position: a line starts after position b, where b
\* is 0 or the position of a newline, and runs up to the next newline.
LineStarts(t) == {0} \cup {i \in 1..Len(t) : t[i] = NL}

LineEnd(t, b) ==
    LET stops == {i \in (b + 1)..Len(t) : t[i] = NL} \cup {Len(t) + 1}
    IN  CHOOSE e \in stops : \A x \in stops : e <= x

Inked(t, b) == {i \in (b + 1)..(LineEnd(t, b) - 1) : t[i] \notin Whitespace}

TrimmedLine(t, b) ==
    LET ink == Inked(t, b)
        lo == CHOOSE i \in ink : \A x \in ink : i <= x
        hi == CHOOSE i \in ink : \A x \in ink : i >= x
    IN  [k \in 1..(hi - lo + 1) |-> t[lo + k - 1]]

\* The trimmed non-blank lines of t, in the order of their positions.
ExpectedValues(t) ==
    LET kept == {b \in LineStarts(t) : Inked(t, b) # {}}
    IN  [k \in 1..Cardinality(kept) |->
            TrimmedLine(t, CHOOSE b \in kept :
                              Cardinality({c \in kept : c < b}) = k - 1)]

ExampleValues ==
    << <<"I", "n", "t", "e", "g", "r", "i", "t", "y">>,
       <<"E", "x", "c", "e", "l", "l", "e", "n", "c", "e">> >>

\* C1: clean() maps every non-empty core_values_text to its lines, each
\* trimmed of surrounding whitespace, blank lines dropped, the rest in their
\* original order with duplicates and casing kept; the specification's
\* example text gives ["Integrity", "Excellence"].
C1_CleanSplitsTrimsFilters ==
    [][(CleanStep /\ Get(cleaned_data, "core_values_text", <<>>) # <<>>)
        => /\ "core_values" \in DOMAIN cleaned_data'
           /\ cleaned_data'["core_values"]
                = ExpectedValues(cleaned_data["core_values_text"])
           /\ (cleaned_data["core_values_text"] = ExampleText
                => cleaned_data'["core_values"] = ExampleValues)]_vars

C1_Witness ==
    /\ phase = "cleaned"
    /\ Get(cleaned_data, "core_values_text", <<>>) = ExampleText
    /\ cleaned_data["core_values"] = ExampleValues

\* C2: for an empty, missing or whitespace-only core_values_text, clean()
\* sets core_values to the empty list: the key is present and its value is
\* [], never [""].
C2_BlankGivesEmptyList ==
    [][(CleanStep /\ Blank(Get(cleaned_data, "core_values_text", <<>>)))
        => /\ "core_values" \in DOMAIN cleaned_data'
           /\ cleaned_data'["core_values"] = <<>>]_vars

C2_Witness ==
    /\ phase = "cleaned"
    /\ Get(cleaned_data, "core_values_text", <<>>) = <<" ", NL, NL, " ">>
    /\ "core_values" \in DOMAIN cleaned_data
    /\ cleaned_data["core_values"] = <<>>

\* The form as __init__ left it and before the instance is rebuilt.
Loaded == phase \in {"bound", "validated", "cleaned"}

Persisted(inst) == inst.pk # None

\* Offsets of the entries of l inside their newline-joined text.
RECURSIVE Offset(_, _)
Offset(l, k) == IF k = 1 THEN 0 ELSE Offset(l, k - 1) + Len(l[k - 1]) + 1

\* t is the entries of the non-empty list l in order, one newline between
\* neighbours, nothing else.
IsNewlineJoined(t, l) ==
    /\ Len(t) = Offset(l, Len(l)) + Len(l[Len(l)])
    /\ \A k \in 1..Len(l) :
          /\ \A i \in 1..Len(l[k]) : t[Offset(l, k) + i] = l[k][i]
          /\ k < Len(l) => t[Offset(l, k) + Len(l[k]) + 1] = NL

\* C3 as stated: for every persisted Organization with a stored core_values
\* list, __init__ sets the initial value of core_values_text to the entries
\* joined by newlines.
C3_InitialSetForEveryStoredList ==
    (Loaded /\ Persisted(instance) /\ instance.core_values # None)
        => /\ initial # None
           /\ \/ instance.core_values[1] = <<>> /\ initial[1] = <<>>
              \/ /\ instance.core_values[1] # <<>>
                 /\ IsNewlineJoined(initial[1], instance.core_values[1])

\* C3 amended: for every persisted Organization with a non-empty stored
\* core_values list, __init__ sets the initial value of core_values_text to
\* the stored entries joined by single newlines, in stored order, nothing
\* added, dropped or altered; for an empty stored list it leaves the initial
\* value unset.
C3_InitialIsNewlineJoin ==
    (Loaded /\ Persisted(instance) /\ instance.core_values # None)
        => IF instance.core_values[1] = <<>>
           THEN initial = None
           ELSE /\ initial # None
                /\ IsNewlineJoined(initial[1], instance.core_values[1])

C3_Witness ==
    /\ phase = "bound"
    /\ Persisted(instance)
    /\ instance.core_values = Some(<< <<"a">>, <<" ", "A">> >>)
    /\ initial = Some(<<"a", NL, " ", "A">>)

Trimmed(e) == e # <<>> /\ e[1] \notin Whitespace /\ e[Len(e)] \notin Whitespace

Unchanged ==
    /\ "core_values_text" \in DOMAIN cleaned_data
    /\ cleaned_data["core_values_text"] = ShownText(initial)

\* An edit form whose text was saved as loaded, and has been cleaned.
RoundTripDone(l) ==
    /\ view = "edit"
    /\ phase = "cleaned"
    /\ Persisted(instance)
    /\ instance.core_values = Some(l)
    /\ Unchanged

\* C4 as stated: every stored list of non-empty, already-trimmed strings
\* survives load and unchanged save entry by entry.
C4_RoundTripOfTrimmedEntries ==
    (/\ instance.core_values # None
     /\ RoundTripDone(instance.core_values[1])
     /\ \A k \in 1..Len(instance.core_values[1]) :
           Trimmed(instance.core_values[1][k]))
        => cleaned_data["core_values"] = instance.core_values[1]

\* C4 amended: every stored list of non-empty, already-trimmed strings that
\* contain no newline character survives load and unchanged save: same
\* number of entries, equal entry by entry, same order.
C4_RoundTripOfTrimmedSingleLineEntries ==
    (/\ view = "edit"
     /\ phase = "cleaned"
     /\ Persisted(instance)
     /\ instance.core_values # None
     /\ Unchanged
     /\ \A k \in 1..Len(instance.core_values[1]) :
           /\ Trimmed(instance.core_values[1][k])
           /\ \A i \in 1..Len(instance.core_values[1][k]) :
                 instance.core_values[1][k][i] # NL)
        => /\ Len(cleaned_data["core_values"]) = Len(instance.core_values[1])
           /\ \A k \in 1..Len(instance.core_values[1]) :
                 cleaned_data["core_values"][k] = instance.core_values[1][k]

C4_Witness ==
    /\ RoundTripDone(<< <<"a">>, <<"a">> >>)
    /\ cleaned_data["core_values"] = << <<"a">>, <<"a">> >>

\* C5: a second save of the normalised text changes nothing: when the list
\* L that clean() produced has been stored and its newline join t' is
\* submitted again, clean() yields exactly L, whose join is exactly t'.
C5_SecondSaveIsIdempotent ==
    (/\ view = "edit"
     /\ phase = "cleaned"
     /\ lastCleaned # None
     /\ instance.core_values = lastCleaned
     /\ Unchanged)
        => /\ cleaned_data["core_values"] = lastCleaned[1]
           /\ Join(cleaned_data["core_values"])
                = cleaned_data["core_values_text"]

C5_Witness ==
    /\ view = "edit"
    /\ phase = "cleaned"
    /\ lastCleaned = Some(<< <<"a">>, <<"A">> >>)
    /\ instance.core_values = lastCleaned
    /\ Unchanged
    /\ cleaned_data["core_values"] = lastCleaned[1]

\* C7: clean() changes nothing but the key 'core_values': every other key
\* of cleaned_data, the instance, the initial value and the stored row are
\* as before; save_model() stores obj as it is and changes neither its
\* core_values nor cleaned_data.
C7_OnlyCoreValuesAssigned ==
    [][/\ CleanStep
          => /\ DOMAIN cleaned_data' = DOMAIN cleaned_data \cup {"core_values"}
             /\ \A k \in DOMAIN cleaned_data \ {"core_values"} :
                   cleaned_data'[k] = cleaned_data[k]
             /\ UNCHANGED <<view, instance, initial, db, lastCleaned>>
             /\ UNCHANGED <<displayVars, workflowVars, schemaVars>>
       /\ (phase = "constructed" /\ phase' = "saved")
          => /\ db' = Some(instance')
             /\ instance'.core_values = instance.core_values
             /\ instance'.name = instance.name
             /\ cleaned_data' = cleaned_data]_vars

C7_Witness ==
    /\ phase = "saved"
    /\ cleaned_data["name"] = <<"R">>
    /\ "core_values_text" \in DOMAIN cleaned_data
    /\ cleaned_data["core_values_text"] = <<" ", "a", NL, "A">>
    /\ cleaned_data["core_values"] = << <<"a">>, <<"A">> >>
    /\ db # None
    /\ db[1].core_values = Some(cleaned_data["core_values"])

---------------------------------------------------------------------------
(* Computed display columns of TeamDeskPlanAdmin and TeamDeskPlanReviewAdmin *)

\* Outcome of calling a column helper: a label (a sequence of its parts) or
\* the AttributeError of reading an attribute of None.
Label(parts) == [raised |-> FALSE, value |-> parts]
Raised == [raised |-> TRUE, value |-> <<"AttributeError">>]
NA == Label(<<"N/A">>)

Relation(rows) == {None} \cup {Some(r) : r \in rows}

TeamDesks == {[name |-> "Desk"]}
Organizations == {[name |-> "MoH"], [name |-> "RHB"]}
Users == {[full_name |-> "", username |-> "abebe"],
          [full_name |-> "Abebe B", username |-> "abebe"]}

\* Every combination of present and absent relations.
PlanObjs ==
    [kind : {"plan"},
     team_desk : Relation(TeamDesks),
     organization : Relation(Organizations),
     leo_eo_plan : Relation([organization : Relation({[name |-> "EO"]})])]

ReviewObjs ==
    [kind : {"review"},
     plan : Relation([team_desk : Relation(TeamDesks),
                      organization : Relation(Organizations)]),
     reviewer : Relation([user : Relation(Users)])]

get_team_desk_name(o) ==
    IF o.team_desk # None THEN Label(<<o.team_desk[1].name>>) ELSE NA

get_organization_name(o) ==
    IF o.organization # None THEN Label(<<o.organization[1].name>>) ELSE NA

get_leo_eo_plan_name(o) ==
    IF o.leo_eo_plan # None /\ o.leo_eo_plan[1].organization # None
    THEN Label(<<o.leo_eo_plan[1].organization[1].name, " Plan">>)
    ELSE NA

\* The guard tests plan and plan.team_desk; the label also reads
\* plan.organization.name.
get_plan_info(o) ==
    IF o.plan # None /\ o.plan[1].team_desk # None
    THEN IF o.plan[1].organization = None
         THEN Raised
         ELSE Label(<<o.plan[1].team_desk[1].name, " (",
                      o.plan[1].organization[1].name, ")">>)
    ELSE NA

get_reviewer_name(o) ==
    IF o.reviewer # None /\ o.reviewer[1].user # None
    THEN LET user == o.reviewer[1].user[1]
         IN  Label(<<IF user.full_name # "" THEN user.full_name
                     ELSE user.username>>)
    ELSE NA

\* The changelist calls the computed columns of list_display from left to
\* right; a raised error ends the rendering of the page.
Rendering(kind, position) ==
    /\ obj # <<>>
    /\ obj.kind = kind
    /\ Len(cells) = position - 1
    /\ \A i \in 1..Len(cells) : ~cells[i].raised

RenderTeamDeskName ==
    /\ Rendering("plan", 1)
    /\ cells' = Append(cells, get_team_desk_name(obj))
    /\ UNCHANGED <<obj, formVars, workflowVars, schemaVars>>

RenderOrganizationName ==
    /\ Rendering("plan", 2)
    /\ cells' = Append(cells, get_organization_name(obj))
    /\ UNCHANGED <<obj, formVars, workflowVars, schemaVars>>

RenderLeoEoPlanName ==
    /\ Rendering("plan", 3)
    /\ cells' = Append(cells, get_leo_eo_plan_name(obj))
    /\ UNCHANGED <<obj, formVars, workflowVars, schemaVars>>

RenderPlanInfo ==
    /\ Rendering("review", 1)
    /\ cells' = Append(cells, get_plan_info(obj))
    /\ UNCHANGED <<obj, formVars, workflowVars, schemaVars>>

RenderReviewerName ==
    /\ Rendering("review", 2)
    /\ cells' = Append(cells, get_reviewer_name(obj))
    /\ UNCHANGED <<obj, formVars, workflowVars, schemaVars>>

InitDisplay ==
    /\ FormIdle /\ WorkflowIdle /\ SchemaIdle
    /\ obj \in PlanObjs \cup ReviewObjs
    /\ cells = <<>>

NextDisplay ==
    \/ RenderTeamDeskName
    \/ RenderOrganizationName
    \/ RenderLeoEoPlanName
    \/ RenderPlanInfo
    \/ RenderReviewerName

SpecDisplay == InitDisplay /\ [][NextDisplay]_vars

\* C6: every computed display column returns a label or the sentinel 'N/A'
\* for every combination of present and absent relations, and never raises.
C6_DisplayHelpersNeverRaise ==
    \A i \in 1..Len(cells) : ~cells[i].raised

---------------------------------------------------------------------------
(* Plan and review rows edited through TeamDeskPlanAdmin and               *)
(* TeamDeskPlanReviewAdmin                                                 *)

MaxReviews == 2      \* review rows ever created

PlanIds == {"p1", "p2"}
Reviewers == {"r1", "r2"}
PlanStatuses == {"DRAFT", "SUBMITTED", "APPROVED"}
\* The verdicts a reviewer records: a status with its feedback.
Verdicts == {[status |-> "APPROVED", feedback |-> ""],
             [status |-> "REJECTED", feedback |-> "fix"]}

\* A timestamp is "auto" when the storage layer wrote it and "posted" when
\* the operator typed it into a form.
Auto == Some("auto")
Posted == Some("posted")

\* Fields of the change forms that are written from the posted data: the
\* fields of the fieldsets that are not in readonly_fields.  Only the ones
\* the rows of this model carry are listed.
PlanEditable == {"status", "submitted_at"}

\* readonly_fields missing: reviewed_at becomes an input of the form.
ReviewEditable_NoReadonly ==
    {"plan", "reviewer", "status", "feedback", "reviewed_at"}

ReviewEditable == {"plan", "reviewer", "status", "feedback"}

\* What an operator can post to each form.
PlanPosts == [status : PlanStatuses, submitted_at : {None, Posted}]

ReviewPosts ==
    {[plan |-> p, reviewer |-> rv, status |-> v.status,
      feedback |-> v.feedback, reviewed_at |-> Posted] :
        p \in DOMAIN plans, rv \in Reviewers, v \in Verdicts}

\* A new plan is a draft that has not been submitted; a new review is
\* timestamped when it is stored.
NewPlanRow == [status |-> "DRAFT", submitted_at |-> None]

NewReviewRow ==
    [plan |-> None, reviewer |-> None, status |-> None, feedback |-> "",
     reviewed_at |-> Auto]

\* ModelForm save: the editable fields take the posted values.
ApplyPost(row, post, editable) ==
    [f \in DOMAIN row |-> IF f \in editable THEN post[f] ELSE row[f]]

Remove(d, key) == [k \in DOMAIN d \ {key} |-> d[k]]

AddPlan(p, post) ==
    /\ p \notin DOMAIN plans
    /\ plans' = Put(plans, p, ApplyPost(NewPlanRow, post, PlanEditable))
    /\ UNCHANGED <<reviews, nextReview, formVars, displayVars, schemaVars>>

EditPlan(p, post) ==
    /\ p \in DOMAIN plans
    /\ plans' = Put(plans, p, ApplyPost(plans[p], post, PlanEditable))
    /\ UNCHANGED <<reviews, nextReview, formVars, displayVars, schemaVars>>

\* Saving a review that also writes its verdict into the plan.
AddReview_SetsPlanStatus(post) ==
    /\ nextReview <= MaxReviews
    /\ reviews' = Put(reviews, nextReview,
                      ApplyPost(NewReviewRow, post, ReviewEditable))
    /\ nextReview' = nextReview + 1
    /\ plans' = [plans EXCEPT ![post.plan].status = "APPROVED"]
    /\ UNCHANGED <<formVars, displayVars, schemaVars>>

AddReview(post) ==
    /\ nextReview <= MaxReviews
    /\ reviews' = Put(reviews, nextReview,
                      ApplyPost(NewReviewRow, post, ReviewEditable))
    /\ nextReview' = nextReview + 1
    /\ UNCHANGED <<plans, formVars, displayVars, schemaVars>>

EditReview(r, post) ==
    /\ r \in DOMAIN reviews
    /\ reviews' = Put(reviews, r, ApplyPost(reviews[r], post, ReviewEditable))
    /\ UNCHANGED <<plans, nextReview, formVars, displayVars, schemaVars>>

DeleteReview(r) ==
    /\ r \in DOMAIN reviews
    /\ reviews' = Remove(reviews, r)
    /\ UNCHANGED <<plans, nextReview, formVars, displayVars, schemaVars>>

InitWorkflow ==
    /\ FormIdle /\ DisplayIdle /\ SchemaIdle
    /\ plans = <<>>
    /\ reviews = <<>>
    /\ nextReview = 1

NextWorkflow ==
    \/ \E p \in PlanIds, post \in PlanPosts : AddPlan(p, post)
    \/ \E p \in PlanIds, post \in PlanPosts : EditPlan(p, post)
    \/ \E post \in ReviewPosts : AddReview(post)
    \/ \E r \in 1..MaxReviews, post \in ReviewPosts : EditReview(r, post)
    \/ \E r \in 1..MaxReviews : DeleteReview(r)

SpecWorkflow == InitWorkflow /\ [][NextWorkflow]_vars

\* C8 as stated: after any sequence of administrative edits, a plan whose
\* status is past draft has submitted_at set, and every review row has a
\* reviewed_at that was set for it and that no operator typed.
C8_TimestampsFollowStatus ==
    /\ \A p \in DOMAIN plans :
          plans[p].status # "DRAFT" => plans[p].submitted_at # None
    /\ \A r \in DOMAIN reviews : reviews[r].reviewed_at = Auto

\* C8 amended: after any sequence of administrative edits every review row
\* has its reviewed_at set, by the storage layer and never from a value the
\* operator posted (reviewed_at is read-only in the panel).  Nothing is
\* claimed of submitted_at: status and submitted_at are separate editable
\* fields of the plan form.
C8_ReviewedAtSetAndReadOnly ==
    \A r \in DOMAIN reviews :
        /\ reviews[r].reviewed_at # None
        /\ reviews[r].reviewed_at # Posted

C8_Witness ==
    \E r \in DOMAIN reviews :
        /\ nextReview > MaxReviews
        /\ reviews[r].status = "REJECTED"
        /\ reviews[r].feedback = "fix"
        /\ plans[reviews[r].plan].status = "SUBMITTED"
        /\ plans[reviews[r].plan].submitted_at = Posted
        /\ reviews[r].reviewed_at = Auto

ReviewContent(row) == <<row.plan, row.reviewer, row.status, row.feedback>>

---------------------------------------------------------------------------
(* The Plan columns added by migrations 0013 and 0016, and the selection   *)
(* of objectives with per-plan weight overrides                            *)

MaxObjectives == 2   \* strategic objectives that exist

StrategicPlanIds == {"plan1", "plan2"}
Objectives == 1..MaxObjectives
CustomWeights == {30, 70}

HasColumn(row, column) == column \in DOMAIN row

\* 0013: AddField selected_objectives, a many-to-many relation (blank=True):
\* every existing plan starts with no selected objective.
Migrate0013 ==
    /\ "0013" \notin applied
    /\ applied' = applied \cup {"0013"}
    /\ planRows' = [p \in DOMAIN planRows |->
                      Put(planRows[p], "selected_objectives", {})]
    /\ UNCHANGED <<formVars, displayVars, workflowVars>>

\* 0016 (after 0015, hence after 0013): AddField selected_objectives_weights,
\* a JSON column with null=True and no default: NULL in every existing row.
Migrate0016 ==
    /\ "0013" \in applied
    /\ "0016" \notin applied
    /\ applied' = applied \cup {"0016"}
    /\ planRows' = [p \in DOMAIN planRows |->
                      Put(planRows[p], "selected_objectives_weights", None)]
    /\ UNCHANGED <<formVars, displayVars, workflowVars>>

\* A plan created under the current schema: the columns that exist, empty.
NewStrategicPlan ==
    LET c13 == IF "0013" \in applied
               THEN Put(<<>>, "selected_objectives", {}) ELSE <<>>
    IN  IF "0016" \in applied
        THEN Put(c13, "selected_objectives_weights", None) ELSE c13

CreatePlan(p) ==
    /\ p \notin DOMAIN planRows
    /\ planRows' = Put(planRows, p, NewStrategicPlan)
    /\ UNCHANGED <<applied, formVars, displayVars, workflowVars>>

SelectObjective(p, o) ==
    /\ p \in DOMAIN planRows
    /\ HasColumn(planRows[p], "selected_objectives")
    /\ o \notin planRows[p]["selected_objectives"]
    /\ planRows' = [planRows EXCEPT
                      ![p]["selected_objectives"] = @ \cup {o}]
    /\ UNCHANGED <<applied, formVars, displayVars, workflowVars>>

\* An override is given only to an objective of the plan's selection.
SetWeight(p, o, w) ==
    /\ p \in DOMAIN planRows
    /\ HasColumn(planRows[p], "selected_objectives_weights")
    /\ o \in planRows[p]["selected_objectives"]
    /\ LET old == planRows[p]["selected_objectives_weights"]
           mapping == IF old = None THEN <<>> ELSE old[1]
       IN  planRows' = [planRows EXCEPT
                          ![p]["selected_objectives_weights"] =
                              Some(Put(mapping, o, w))]
    /\ UNCHANGED <<applied, formVars, displayVars, workflowVars>>

ClearWeights(p) ==
    /\ p \in DOMAIN planRows
    /\ HasColumn(planRows[p], "selected_objectives_weights")
    /\ planRows[p]["selected_objectives_weights"] # None
    /\ planRows' = [planRows EXCEPT
                      ![p]["selected_objectives_weights"] = None]
    /\ UNCHANGED <<applied, formVars, displayVars, workflowVars>>

\* Deselecting that leaves the objective's override behind.
DeselectObjective_KeepsOverride(p, o) ==
    /\ p \in DOMAIN planRows
    /\ HasColumn(planRows[p], "selected_objectives")
    /\ o \in planRows[p]["selected_objectives"]
    /\ planRows' = [planRows EXCEPT
                      ![p]["selected_objectives"] = @ \ {o}]
    /\ UNCHANGED <<applied, formVars, displayVars, workflowVars>>

\* Deselecting an objective drops its override with it.
DeselectObjective(p, o) ==
    /\ p \in DOMAIN planRows
    /\ HasColumn(planRows[p], "selected_objectives")
    /\ o \in planRows[p]["selected_objectives"]
    /\ LET row == planRows[p]
           selected == row["selected_objectives"] \ {o}
           kept == IF HasColumn(row, "selected_objectives_weights")
                      /\ row["selected_objectives_weights"] # None
                   THEN Put(Put(row, "selected_objectives", selected),
                            "selected_objectives_weights",
                            Some(Remove(row["selected_objectives_weights"][1],
                                        o)))
                   ELSE Put(row, "selected_objectives", selected)
       IN  planRows' = [planRows EXCEPT ![p] = kept]
    /\ UNCHANGED <<applied, formVars, displayVars, workflowVars>>

\* The Plan table as migration 0012 left it, with some rows in it.
InitSchema ==
    /\ FormIdle /\ DisplayIdle /\ WorkflowIdle
    /\ applied = {}
    /\ planRows \in {[p \in S |-> <<>>] : S \in SUBSET StrategicPlanIds}

NextSchema ==
    \/ Migrate0013
    \/ Migrate0016
    \/ \E p \in StrategicPlanIds : CreatePlan(p)
    \/ \E p \in StrategicPlanIds, o \in Objectives : SelectObjective(p, o)
    \/ \E p \in StrategicPlanIds, o \in Objectives : DeselectObjective(p, o)
    \/ \E p \in StrategicPlanIds, o \in Objectives, w \in CustomWeights :
          SetWeight(p, o, w)
    \/ \E p \in StrategicPlanIds : ClearWeights(p)

SpecSchema == InitSchema /\ [][NextSchema]_vars

===========================================================================
